---- MODULE Spec2Model ----
(***************************************************************************)
(* A model of swea/docker_vm.py: the DockerVM sandbox session (start,      *)
(* stop, remove, execute, execute_script, reinitialize) and the streaming  *)
(* executor behind codex_exec with its stuck detection and recovery.       *)
(*                                                                         *)
(* The specifications share the state:                                     *)
(*   Spec            the lifecycle and the one-shot command executor;      *)
(*   SpecStream      codex_exec: the polling loop, the wrapped process,    *)
(*                   the recovery commands;                                *)
(*   SpecStreamFair  SpecStream with a fair polling loop;                  *)
(*   SpecPrompt      codex_exec's escaping, over all short prompts.        *)
(* Text is modelled as a sequence of tokens, so that joining chunks is     *)
(* concatenation and a regex search is a search for a marker token.        *)
(***************************************************************************)
EXTENDS Integers, Sequences, FiniteSets, TLC

VARIABLES
    status,                \* the runtime's status of the instance named CONTAINER_NAME
    provisioned,           \* every command of _initialize_container has succeeded in the instance
    container,             \* DockerVM._container: None or Attached
    reused,                \* DockerVM._reused
    pc,                    \* where the session's single thread of control is
    step,                  \* index of the next command of a multi-command operation
    op,                    \* the operation in progress or last finished, what it
                           \* observed, the runtime calls start() made, the prompt
                           \* of codex_exec and its escaped form, how it ended
    destroyed,             \* history: "yes" once remove() has returned, "recreated" once
                           \* start() has created an instance after that
    issued,                \* history: the commands op handed to exec_run, in order
    firstFailure,          \* history: the first of them that exited non-zero, or NoCmd
    result,                \* the CommandResult op returned
    chan,                  \* what the wrapped process has written and recv has not
                           \* returned, in chunks of what one recv(4096) returns;
                           \* after the loop, what the closed socket was left with
    procRunning,           \* exec_inspect(...)["Running"] of the wrapped process
    now,                   \* time.time(), in poll intervals
    command_timeout,       \* codex_exec's command_timeout argument
    output_buffer,         \* chunks received so far
    was_stuck,
    in_command_execution,
    command_start_time,
    sockClosed,            \* sock._sock.close() has been called
    silentPolls,           \* history: consecutive poll timeouts since the last chunk,
                           \* counted up to MaxTimeout + 1
    loop_exit,             \* history: the way the polling loop ended, "none" before
    oldest_start           \* history: when the oldest start marker not yet followed by
                           \* a complete marker was read, NoTime if there is none

lifeVars == <<status, provisioned, container, reused, pc, step, op, destroyed, issued,
             firstFailure, result>>
streamVars == <<chan, procRunning, now, command_timeout, output_buffer, was_stuck,
                in_command_execution, command_start_time, sockClosed, silentPolls,
                loop_exit, oldest_start>>
vars == <<lifeVars, streamVars>>

(***************************************************************************)
(* Bounds of the model.                                                    *)
(***************************************************************************)
MaxTimeout == 2              \* the largest command_timeout, in poll intervals
MaxEmit == 3                 \* the most chunks the wrapped process writes in one run
MaxPrompt == 3               \* the longest prompt, in characters
MaxTime == MaxTimeout + 1    \* the clock is not followed further while no start time is recorded

(***************************************************************************)
(* The runtime's view of the instance, and the handle.                     *)
(***************************************************************************)
Statuses == {"absent", "running", "exited", "paused"}
None == "None"
Attached == "attached"
NoTime == -1

(***************************************************************************)
(* CommandResult                                                           *)
(***************************************************************************)
CommandResult(code, out, err) == [exit_code |-> code, stdout |-> out, stderr |-> err]

success(r) == r.exit_code = 0

NoResult == CommandResult(-1, <<>>, <<>>)

Returned(r) == [raised |-> FALSE, err |-> "", result |-> r]
Raised(e) == [raised |-> TRUE, err |-> e, result |-> NoResult]

(***************************************************************************)
(* What the runtime can answer to exec_run: the command ran and exited     *)
(* with a code, or the call raised ContainerError, or it raised another    *)
(* error of the API (the instance vanished after the status check, the     *)
(* daemon is unreachable).                                                 *)
(***************************************************************************)
ExitCodes == {0, 1}
ExecRunOutcomes ==
    [kind : {"exited"}, code : ExitCodes]
        \cup {[kind |-> "ContainerError", code |-> 1], [kind |-> "APIError", code |-> 1]}

(***************************************************************************)
(* execute(command): the precondition on the handle, the reload and the    *)
(* status check, then exec_run; only ContainerError is caught.             *)
(* h is the handle, st the status the reload observes, out the runtime's   *)
(* answer to exec_run. The output of a command is tagged with its name.    *)
(***************************************************************************)
\* an execute that hands the command to exec_run whatever the handle and the status
executeNoPrecondition(h, st, cmd, out) ==
    IF out.kind = "APIError" THEN Raised("APIError")
    ELSE IF out.kind = "ContainerError"
         THEN Returned(CommandResult(out.code, <<>>, <<"ContainerError", cmd>>))
    ELSE Returned(CommandResult(out.code,
                                IF out.code = 0 THEN <<cmd>> ELSE <<>>,
                                IF out.code = 0 THEN <<>> ELSE <<cmd>>))

execute(h, st, cmd, out) ==
    IF h = None THEN Raised("NotStarted")
    ELSE IF st = "absent" THEN Raised("NotFound")
    ELSE IF st # "running" THEN Raised("NotRunning")
    ELSE IF out.kind = "APIError" THEN Raised("APIError")
    ELSE IF out.kind = "ContainerError"
         THEN Returned(CommandResult(out.code, <<>>, <<"ContainerError", cmd>>))
    ELSE Returned(CommandResult(out.code,
                                IF out.code = 0 THEN <<cmd>> ELSE <<>>,
                                IF out.code = 0 THEN <<>> ELSE <<cmd>>))

\* exec_run was reached (the precondition held), whatever it answered
Reached(h, st) == h # None /\ st = "running"

NoCmd == "no command"

\* the histories after execute(cmd) on handle h, status st and answer out
IssuedAfter(log, h, st, cmd) == IF Reached(h, st) THEN Append(log, cmd) ELSE log

FirstFailureAfter(first, h, st, cmd, out) ==
    IF first = NoCmd /\ Reached(h, st) /\ out.kind # "APIError" /\ out.code # 0
    THEN cmd
    ELSE first

(***************************************************************************)
(* The operation record.                                                   *)
(***************************************************************************)
NoOp ==
    [name |-> "none", outcome |-> "ok", err |-> "", observed |-> "n/a", calls |-> <<>>,
     prompt |-> <<>>, escaped |-> <<>>]
Begin(name, obs) ==
    [name |-> name, outcome |-> "running", err |-> "", observed |-> obs, calls |-> <<>>,
     prompt |-> <<>>, escaped |-> <<>>]
Ended(o, outcome, err) == [o EXCEPT !.outcome = outcome, !.err = err]

(***************************************************************************)
(* The commands of the multi-command operations, in the order the code     *)
(* issues them; checked says whether the code tests the command's result.  *)
(***************************************************************************)
Cmd(c, checked) == [cmd |-> c, checked |-> checked]

setup_workspace == <<Cmd("git_init", TRUE), Cmd("git_config", TRUE)>>

sync_config == <<Cmd("mkdir_codex", TRUE), Cmd("write_config", TRUE)>>

sync_agents == <<Cmd("write_agents", TRUE)>>

initialize_container ==
    <<Cmd("apt_install", TRUE), Cmd("install_node", TRUE), Cmd("install_codex", TRUE),
      Cmd("codex_version", FALSE), Cmd("install_uv", TRUE), Cmd("export_path", FALSE),
      Cmd("clone_vibetest", TRUE), Cmd("setup_venv", TRUE), Cmd("install_playwright", TRUE)>>
        \o setup_workspace \o sync_config \o sync_agents

reinitialize_commands == setup_workspace \o sync_config \o sync_agents

script_commands == <<"create", "chmod", "run", "rm">>

kill_commands ==
    <<"pkill_bun_dev", "pkill_npm_run", "pkill_node_server", "pkill_python_http",
      "pkill_flask_run", "pkill_uvicorn", "pkill_gunicorn",
      "fuser_3000", "fuser_5000", "fuser_8000", "fuser_8080">>

Commands(name) ==
    IF name = "start" THEN initialize_container ELSE reinitialize_commands

Names(cmds) == [i \in 1..Len(cmds) |-> cmds[i].cmd]

(***************************************************************************)
(* start()                                                                 *)
(***************************************************************************)
\* which of start's runtime calls (if any) raises
StartFailures == {"none", "lookup", "start", "remove", "image", "run"}

\* a start that never attaches to a running instance but replaces it
StartBranchNoAttach(st) ==
    IF st = "absent" THEN "create"
    ELSE IF st = "exited" THEN "restart"
    ELSE "replace"

\* a start that creates over an instance in another status without removing it
StartBranchNoRemove(st) ==
    IF st = "running" THEN "attach"
    ELSE IF st = "exited" THEN "restart"
    ELSE "create"

\* the branch start takes on the status it observes (absent: nothing found)
StartBranch(st) ==
    IF st = "absent" THEN "create"
    ELSE IF st = "running" THEN "attach"
    ELSE IF st = "exited" THEN "restart"
    ELSE "replace"

\* the calls start makes to the runtime on the status it observes, up to the
\* one that raises (fail) or to its return or its first provisioning command
StartCalls(st, fail) ==
    LET found == IF st = "absent" THEN <<"get">> ELSE <<"get", "reload">>
        create == IF fail = "image" THEN <<"ensure_image">> ELSE <<"ensure_image", "run">>
        branch == StartBranch(st)
    IN  IF fail = "lookup" THEN <<"get">>
        ELSE IF branch = "attach" THEN found
        ELSE IF branch = "restart" THEN found \o <<"start">>
        ELSE IF branch = "replace"
             THEN found \o <<"remove">> \o (IF fail = "remove" THEN <<>> ELSE create)
        ELSE found \o create

Finish(name, obs, outcome, err) ==
    /\ op' = Ended(Begin(name, obs), outcome, err)
    /\ pc' = "idle"

FinishStart(obs, outcome, err, fail) ==
    /\ op' = [Ended(Begin("start", obs), outcome, err) EXCEPT !.calls = StartCalls(obs, fail)]
    /\ pc' = "idle"

start(fail) ==
    /\ pc = "idle"
    /\ issued' = <<>>
    /\ firstFailure' = NoCmd
    /\ result' = NoResult
    /\ UNCHANGED streamVars
    /\ IF container # None
       THEN /\ Finish("start", "n/a", "raised", "AlreadyStarted")
            /\ UNCHANGED <<status, provisioned, container, reused, step>>
       ELSE IF fail = "lookup"
       THEN /\ op' = [Ended(Begin("start", "n/a"), "raised", "APIError")
                        EXCEPT !.calls = StartCalls(status, fail)]
            /\ pc' = "idle"
            /\ UNCHANGED <<status, provisioned, container, reused, step>>
       ELSE IF StartBranch(status) = "attach"
       THEN /\ container' = Attached
            /\ reused' = TRUE
            /\ FinishStart(status, "ok", "", fail)
            /\ UNCHANGED <<status, provisioned, step>>
       ELSE IF StartBranch(status) = "restart"
       THEN IF fail = "start"
            THEN /\ FinishStart(status, "raised", "APIError", fail)
                 /\ UNCHANGED <<status, provisioned, container, reused, step>>
            ELSE /\ status' = "running"
                 /\ container' = Attached
                 /\ reused' = TRUE
                 /\ FinishStart(status, "ok", "", fail)
                 /\ UNCHANGED <<provisioned, step>>
       ELSE IF StartBranch(status) = "replace" /\ fail = "remove"
       THEN /\ FinishStart(status, "raised", "APIError", fail)
            /\ UNCHANGED <<status, provisioned, container, reused, step>>
       ELSE IF fail \in {"image", "run"}
       THEN /\ status' = "absent"
            /\ provisioned' = FALSE
            /\ FinishStart(status, "raised", "APIError", fail)
            /\ UNCHANGED <<container, reused, step>>
       ELSE /\ status' = "running"
            /\ provisioned' = FALSE
            /\ container' = Attached
            /\ reused' = FALSE
            /\ op' = [Begin("start", status) EXCEPT !.calls = StartCalls(status, fail)]
            /\ pc' = "prov"
            /\ step' = 1
    /\ destroyed' = IF destroyed = "yes" /\ status' # "absent" THEN "recreated" ELSE destroyed

(***************************************************************************)
(* reinitialize()                                                          *)
(***************************************************************************)
reinitialize ==
    /\ pc = "idle"
    /\ issued' = <<>>
    /\ firstFailure' = NoCmd
    /\ result' = NoResult
    /\ UNCHANGED <<status, provisioned, container, reused, destroyed, streamVars>>
    /\ IF container = None
       THEN Finish("reinitialize", "n/a", "raised", "NotStarted") /\ UNCHANGED step
       ELSE IF status = "absent"
       THEN Finish("reinitialize", status, "raised", "NotFound") /\ UNCHANGED step
       ELSE IF status # "running"
       THEN Finish("reinitialize", status, "raised", "NotRunning") /\ UNCHANGED step
       ELSE /\ op' = Begin("reinitialize", status)
            /\ pc' = "prov"
            /\ step' = 1

(***************************************************************************)
(* One command of _initialize_container (called by start) or of            *)
(* reinitialize: execute it, raise if the code checks it and it failed.    *)
(***************************************************************************)
provision_step(out) ==
    /\ pc = "prov"
    /\ LET cmds == Commands(op.name)
           c == cmds[step]
           r == execute(container, status, c.cmd, out)
       IN  /\ issued' = IssuedAfter(issued, container, status, c.cmd)
           /\ firstFailure' = FirstFailureAfter(firstFailure, container, status, c.cmd, out)
           /\ provisioned' = IF op.name = "start" /\ step = Len(cmds) /\ ~r.raised
                             THEN firstFailure' = NoCmd
                             ELSE provisioned
           /\ IF r.raised
              THEN /\ op' = Ended(op, "raised", r.err)
                   /\ pc' = "idle"
                   /\ UNCHANGED step
              ELSE IF c.checked /\ ~success(r.result)
              THEN /\ op' = Ended(op, "raised", "ProvisioningFailure")
                   /\ pc' = "idle"
                   /\ UNCHANGED step
              ELSE IF step = Len(cmds)
              THEN /\ op' = Ended(op, "ok", "")
                   /\ pc' = "idle"
                   /\ UNCHANGED step
              ELSE /\ step' = step + 1
                   /\ UNCHANGED <<op, pc>>
    /\ UNCHANGED <<status, container, reused, destroyed, result, streamVars>>

(***************************************************************************)
(* stop() and remove(). fail names the runtime call that raises, if any:   *)
(* an error of the API, or NotFound because the instance vanished after    *)
(* the reload.                                                             *)
(***************************************************************************)
TeardownFailures ==
    {"none", "reload_error", "stop_error", "stop_not_found",
     "remove_error", "remove_not_found"}

\* a teardown that clears the handle at the end of its body, not in a finally clause
HandleAfterTeardownNoFinally(h, raised) == IF raised THEN h ELSE None

\* the finally clause: the handle after the body ended, normally or by an exception
HandleAfterTeardown(h, raised) == None

\* the outcome of stop's body on the status the reload observes
StopBody(st, fail) ==
    IF st = "absent" THEN [outcome |-> "warned", err |-> "NotFound", status |-> st]
    ELSE IF fail = "reload_error" THEN [outcome |-> "raised", err |-> "APIError", status |-> st]
    ELSE IF st # "running" THEN [outcome |-> "ok", err |-> "", status |-> st]
    ELSE IF fail = "stop_error" THEN [outcome |-> "raised", err |-> "APIError", status |-> st]
    ELSE IF fail = "stop_not_found"
         THEN [outcome |-> "warned", err |-> "NotFound", status |-> "absent"]
    ELSE [outcome |-> "ok", err |-> "", status |-> "exited"]

\* a remove that stops the instance and leaves it in place
RemoveBodyKeepsInstance(st, fail) ==
    LET stopped == StopBody(st, fail) IN
    IF stopped.outcome # "ok" THEN stopped
    ELSE [outcome |-> "ok", err |-> "", status |-> stopped.status]

\* the outcome of remove's body: reload, stop if running, remove(force=True)
RemoveBody(st, fail) ==
    LET stopped == StopBody(st, fail) IN
    IF stopped.outcome # "ok" THEN stopped
    ELSE IF fail = "remove_error"
         THEN [outcome |-> "raised", err |-> "APIError", status |-> stopped.status]
    ELSE IF fail = "remove_not_found"
         THEN [outcome |-> "warned", err |-> "NotFound", status |-> "absent"]
    ELSE [outcome |-> "ok", err |-> "", status |-> "absent"]

Teardown(name, body) ==
    /\ pc = "idle"
    /\ issued' = <<>>
    /\ firstFailure' = NoCmd
    /\ result' = NoResult
    /\ UNCHANGED <<reused, step, streamVars>>
    /\ IF container = None
       THEN /\ Finish(name, "n/a", "warned", "NoContainer")
            /\ UNCHANGED <<status, provisioned, container, destroyed>>
       ELSE /\ Finish(name, status, body.outcome, body.err)
            /\ destroyed' = IF name = "remove" /\ body.outcome # "raised"
                            THEN "yes"
                            ELSE destroyed
            /\ status' = body.status
            /\ provisioned' = (provisioned /\ body.status # "absent")
            /\ container' = HandleAfterTeardown(container, body.outcome = "raised")

stop(fail) == Teardown("stop", StopBody(status, fail))

remove(fail) == Teardown("remove", RemoveBody(status, fail))

(***************************************************************************)
(* A caller's direct execute(command).                                     *)
(***************************************************************************)
CallExecute(out) ==
    /\ pc = "idle"
    /\ LET r == execute(container, status, "user_command", out)
       IN  /\ Finish("execute", IF container = None THEN "n/a" ELSE status,
                     IF r.raised THEN "raised" ELSE "ok", r.err)
           /\ result' = r.result
           /\ issued' = IssuedAfter(<<>>, container, status, "user_command")
           /\ firstFailure' = FirstFailureAfter(NoCmd, container, status, "user_command", out)
    /\ UNCHANGED <<status, provisioned, container, reused, step, destroyed, streamVars>>

(***************************************************************************)
(* execute_script(script): create the file, chmod it, run it, remove it.   *)
(***************************************************************************)
execute_script ==
    /\ pc = "idle"
    /\ issued' = <<>>
    /\ firstFailure' = NoCmd
    /\ result' = NoResult
    /\ op' = Begin("execute_script", "n/a")
    /\ pc' = "script"
    /\ step' = 1
    /\ UNCHANGED <<status, provisioned, container, reused, destroyed, streamVars>>

script_step(out) ==
    /\ pc = "script"
    /\ LET c == script_commands[step]
           r == execute(container, status, c, out)
       IN  /\ issued' = IssuedAfter(issued, container, status, c)
           /\ firstFailure' = FirstFailureAfter(firstFailure, container, status, c, out)
           /\ IF r.raised
              THEN /\ op' = Ended(op, "raised", r.err)
                   /\ pc' = "idle"
                   /\ UNCHANGED <<step, result>>
              ELSE IF c \in {"create", "chmod"}
              THEN IF ~success(r.result)
                   THEN /\ result' = r.result
                        /\ op' = Ended(op, "ok", "")
                        /\ pc' = "idle"
                        /\ UNCHANGED step
                   ELSE /\ step' = step + 1
                        /\ UNCHANGED <<op, pc, result>>
              ELSE IF c = "run"
              THEN /\ result' = r.result
                   /\ step' = step + 1
                   /\ UNCHANGED <<op, pc>>
              ELSE /\ op' = Ended(op, "ok", "")
                   /\ pc' = "idle"
                   /\ UNCHANGED <<step, result>>
    /\ UNCHANGED <<status, provisioned, container, reused, destroyed, streamVars>>

(***************************************************************************)
(* A new session: a new DockerVM object (dataclass defaults).              *)
(***************************************************************************)
NewSession ==
    /\ pc = "idle"
    /\ container # None \/ reused
    /\ container' = None
    /\ reused' = FALSE
    /\ op' = Ended(Begin("new_session", "n/a"), "ok", "")
    /\ issued' = <<>>
    /\ firstFailure' = NoCmd
    /\ result' = NoResult
    /\ UNCHANGED <<status, provisioned, pc, step, destroyed, streamVars>>

(***************************************************************************)
(* The world outside the session: the instance is stopped, paused,         *)
(* resumed, restarted or deleted by hand. Nothing outside creates it. The  *)
(* wrapped process dies with the instance.                                 *)
(***************************************************************************)
EnvChange(s) ==
    /\ status # "absent"
    /\ s # status
    /\ status' = s
    /\ provisioned' = (provisioned /\ s # "absent")
    /\ procRunning' = (procRunning /\ s \in {"running", "paused"})
    /\ UNCHANGED <<container, reused, pc, step, op, destroyed, issued, firstFailure, result,
                   chan, now, command_timeout, output_buffer, was_stuck,
                   in_command_execution, command_start_time, sockClosed, silentPolls,
                   loop_exit, oldest_start>>

(***************************************************************************)
(* The lifecycle specification.                                            *)
(***************************************************************************)
StreamIdle ==
    /\ chan = <<>>
    /\ procRunning = FALSE
    /\ now = 0
    /\ command_timeout = 1
    /\ output_buffer = <<>>
    /\ was_stuck = FALSE
    /\ in_command_execution = FALSE
    /\ command_start_time = NoTime
    /\ sockClosed = FALSE
    /\ silentPolls = 0
    /\ loop_exit = "none"
    /\ oldest_start = NoTime

\* An instance found at the beginning was created and provisioned by an
\* earlier session.
Init ==
    /\ status \in Statuses
    /\ provisioned = (status # "absent")
    /\ container = None
    /\ reused = FALSE
    /\ pc = "idle"
    /\ step = 0
    /\ op = NoOp
    /\ destroyed = "no"
    /\ issued = <<>>
    /\ firstFailure = NoCmd
    /\ result = NoResult
    /\ StreamIdle

Next ==
    \/ \E fail \in StartFailures : start(fail)
    \/ reinitialize
    \/ \E out \in ExecRunOutcomes : provision_step(out)
    \/ \E fail \in TeardownFailures : stop(fail)
    \/ \E fail \in TeardownFailures : remove(fail)
    \/ \E out \in ExecRunOutcomes : CallExecute(out)
    \/ execute_script
    \/ \E out \in ExecRunOutcomes : script_step(out)
    \/ NewSession
    \/ \E s \in Statuses : EnvChange(s)

Spec == Init /\ [][Next]_vars

(***************************************************************************)
(* codex_exec and _execute_with_stuck_detection.                           *)
(*                                                                         *)
(* A chunk is what one recv(4096) returns: a sequence of tokens, where     *)
(* "exec_start" is a text exec_start_pattern matches, "exec_complete" a    *)
(* text exec_complete_pattern matches and "text" anything else.            *)
(***************************************************************************)
Chunks ==
    {<<"text">>, <<"exec_start">>, <<"exec_complete">>,
     <<"exec_start", "exec_complete">>, <<"exec_complete", "exec_start">>}

exec_start_pattern(chunk) == \E i \in 1..Len(chunk) : chunk[i] = "exec_start"

exec_complete_pattern(chunk) == \E i \in 1..Len(chunk) : chunk[i] = "exec_complete"

\* "".join(output_buffer)
RECURSIVE Join(_)
Join(chunks) == IF chunks = <<>> THEN <<>> ELSE Head(chunks) \o Join(Tail(chunks))

\* the two searches of the loop on a received chunk, at time t
AfterChunk(chunk, inCmd, since, t) ==
    LET started == IF exec_start_pattern(chunk)
                   THEN [inCmd |-> TRUE, since |-> t]
                   ELSE [inCmd |-> inCmd, since |-> since]
    IN  IF started.inCmd /\ exec_complete_pattern(chunk)
        THEN [inCmd |-> FALSE, since |-> NoTime]
        ELSE started

\* the start time of the oldest start marker that no complete marker has
\* followed, in the order of the text, after a chunk read at time t
OldestAfter(chunk, oldest, t) ==
    IF chunk[Len(chunk)] = "exec_start"
    THEN IF oldest = NoTime \/ exec_complete_pattern(chunk) THEN t ELSE oldest
    ELSE IF exec_complete_pattern(chunk) THEN NoTime
    ELSE oldest

\* time.time() after dt more poll intervals; it is read only to record a start
\* time and to measure from one
Advance(t, dt, inCmd) ==
    IF inCmd \/ t + dt <= MaxTime THEN t + dt ELSE MaxTime

\* a timeout test that does not look at the phase
TimedOutAnyPhase(inCmd, since, t, timeout) == t - since > timeout

\* the timeout test of the loop's else branch, at time t
TimedOut(inCmd, since, t, timeout) ==
    inCmd /\ since # NoTime /\ t - since > timeout

\* the textually last marker of a text, "none" if it has none
RECURSIVE LastMarkerOf(_)
LastMarkerOf(text) ==
    IF text = <<>> THEN "none"
    ELSE IF text[Len(text)] # "text" THEN text[Len(text)]
    ELSE LastMarkerOf(SubSeq(text, 1, Len(text) - 1))

InspectOutcomes == {"ok", "error"}

\* the values of codex_exec's command_timeout argument, in poll intervals
Timeouts == {1, MaxTimeout}

\* exec_inspect after an iteration: an error ends the loop through the outer
\* except, a process no longer running through the break
LoopEndsAtInspect(insp, running) == insp = "error" \/ ~running

\* the ways the loop can end
LoopExits ==
    {"eof", "recv_error", "select_error", "timeout", "exited", "inspect_error"}

\* a socket closed at the end of the try body only: not after an exception
SocketClosedAfterNoFinally(way) == way \notin {"select_error", "inspect_error"}

\* the finally clause: sock._sock.close() after every way the loop can end
SocketClosedAfter(way) == way \in LoopExits

\* the way the loop ends at exec_inspect
InspectExit(insp) == IF insp = "error" THEN "inspect_error" ELSE "exited"

\* The loop goes on to its next iteration with these locals.
Continue(c, t, inCmd, since, oldest, silent) ==
    /\ chan' = c
    /\ now' = t
    /\ in_command_execution' = inCmd
    /\ command_start_time' = since
    /\ oldest_start' = oldest
    /\ silentPolls' = silent
    /\ UNCHANGED <<pc, step, op, result, procRunning, was_stuck, sockClosed, loop_exit>>

\* The loop ends by a break or an exception: the finally clause closes the
\* socket and the executor returns ("".join(output_buffer), was_stuck) to
\* codex_exec, which goes on to its recovery commands if stuck and returns
\* its success result if not. The executor's locals and the exec session are
\* gone; what was unread in the channel is never read.
LeaveLoop(buffer, stuck, way, unread) ==
    /\ sockClosed' = SocketClosedAfter(way)
    /\ loop_exit' = way
    /\ oldest_start' = NoTime
    /\ silentPolls' = 0
    /\ was_stuck' = stuck
    /\ chan' = unread
    /\ procRunning' = FALSE
    /\ now' = 0
    /\ in_command_execution' = FALSE
    /\ command_start_time' = NoTime
    /\ IF stuck
       THEN /\ pc' = "kill"
            /\ step' = 1
            /\ UNCHANGED <<op, result>>
       ELSE /\ op' = Ended(op, "ok", "")
            /\ pc' = "idle"
            /\ result' = CommandResult(0, Join(buffer), <<>>)
            /\ step' = 0

(***************************************************************************)
(* The prompt and its escaping. A prompt is a sequence of characters: the  *)
(* four the shell treats specially between double quotes, and "a" for any  *)
(* other.                                                                  *)
(***************************************************************************)
Alphabet == {"a", "dq", "dollar", "backtick", "backslash"}

Prompts == UNION {[1..n -> Alphabet] : n \in 0..MaxPrompt}

\* the prompt of main()
main_prompt == <<"a">>

\* str.replace(old, new) for a one-character old
RECURSIVE Replace(_, _, _)
Replace(text, old, new) ==
    IF text = <<>> THEN <<>>
    ELSE (IF Head(text) = old THEN new ELSE <<Head(text)>>) \o Replace(Tail(text), old, new)

escaped_prompt(prompt) ==
    Replace(Replace(Replace(prompt, "dq", <<"backslash", "dq">>),
                    "dollar", <<"backslash", "dollar">>),
            "backtick", <<"backslash", "backtick">>)

\* What bash makes of a text between double quotes: a backslash before a
\* double quote, a dollar sign, a backtick or a backslash quotes that
\* character and is removed, any other backslash stays; a bare double quote
\* ends the string, a bare backtick starts a command substitution, a bare
\* dollar sign before a name character or a dollar sign starts an expansion,
\* a backslash at the end quotes the closing double quote: shell_error.
RECURSIVE ShellDoubleQuoted(_)
ShellDoubleQuoted(text) ==
    IF text = <<>> THEN <<>>
    ELSE IF Head(text) = "backslash"
         THEN IF Len(text) = 1 THEN <<"shell_error">>
              ELSE IF text[2] \in {"dq", "dollar", "backtick", "backslash"}
                   THEN <<text[2]>> \o ShellDoubleQuoted(SubSeq(text, 3, Len(text)))
              ELSE <<"backslash">> \o ShellDoubleQuoted(Tail(text))
    ELSE IF Head(text) \in {"dq", "backtick"} THEN <<"shell_error">>
    ELSE IF Head(text) = "dollar" /\ Len(text) > 1 /\ text[2] \in {"a", "dollar"}
         THEN <<"shell_error">>
    ELSE <<Head(text)>> \o ShellDoubleQuoted(Tail(text))

\* the executor's locals before the loop; spawned: exec_create and exec_start
\* have started the wrapped process
Locals(timeout, spawned) ==
    /\ command_timeout' = timeout
    /\ chan' = <<>>
    /\ procRunning' = spawned
    /\ now' = 0
    /\ output_buffer' = <<>>
    /\ was_stuck' = FALSE
    /\ in_command_execution' = FALSE
    /\ command_start_time' = NoTime
    /\ sockClosed' = FALSE
    /\ silentPolls' = 0
    /\ loop_exit' = "none"
    /\ oldest_start' = NoTime

codex_exec(prompt, timeout, api) ==
    /\ pc = "idle"
    /\ issued' = <<>>
    /\ firstFailure' = NoCmd
    /\ result' = NoResult
    /\ step' = 0
    /\ UNCHANGED <<status, provisioned, container, reused, destroyed>>
    /\ IF container = None
       THEN /\ op' = [Ended(Begin("codex_exec", "n/a"), "raised", "NotStarted")
                        EXCEPT !.prompt = prompt]
            /\ pc' = "idle"
            /\ Locals(timeout, FALSE)
       ELSE IF api = "error" \/ status # "running"
       THEN /\ op' = [Ended(Begin("codex_exec", status), "raised", "APIError(exec_create)")
                        EXCEPT !.prompt = prompt, !.escaped = escaped_prompt(prompt)]
            /\ pc' = "idle"
            /\ Locals(timeout, FALSE)
       ELSE /\ op' = [Begin("codex_exec", status)
                        EXCEPT !.prompt = prompt, !.escaped = escaped_prompt(prompt)]
            /\ pc' = "loop"
            /\ Locals(timeout, TRUE)

\* select reports the socket readable and recv returns a chunk
poll_recv(dt, insp) ==
    /\ pc = "loop"
    /\ chan # <<>>
    /\ LET chunk == Head(chan)
           t == Advance(now, dt, in_command_execution)
           phase == AfterChunk(chunk, in_command_execution, command_start_time, t)
       IN  /\ output_buffer' = Append(output_buffer, chunk)
           /\ IF LoopEndsAtInspect(insp, procRunning)
              THEN LeaveLoop(output_buffer', FALSE, InspectExit(insp), Tail(chan))
              ELSE Continue(Tail(chan), t, phase.inCmd, phase.since,
                            OldestAfter(chunk, oldest_start, t), 0)
    /\ UNCHANGED <<status, provisioned, container, reused, destroyed, issued, firstFailure,
                   command_timeout>>

\* the process is gone and the channel is drained: recv returns b""
poll_eof ==
    /\ pc = "loop"
    /\ chan = <<>>
    /\ ~procRunning
    /\ LeaveLoop(output_buffer, FALSE, "eof", chan)
    /\ UNCHANGED <<status, provisioned, container, reused, destroyed, issued, firstFailure,
                   command_timeout, output_buffer>>

\* recv raises something other than BlockingIOError
poll_recv_error ==
    /\ pc = "loop"
    /\ LeaveLoop(output_buffer, FALSE, "recv_error", chan)
    /\ UNCHANGED <<status, provisioned, container, reused, destroyed, issued, firstFailure,
                   command_timeout, output_buffer>>

\* select raises: the outer except logs the error
poll_select_error ==
    /\ pc = "loop"
    /\ LeaveLoop(output_buffer, FALSE, "select_error", chan)
    /\ UNCHANGED <<status, provisioned, container, reused, destroyed, issued, firstFailure,
                   command_timeout, output_buffer>>

\* select reports the socket readable, recv raises BlockingIOError
poll_blocking(insp) ==
    /\ pc = "loop"
    /\ chan = <<>>
    /\ procRunning
    /\ IF LoopEndsAtInspect(insp, procRunning)
       THEN LeaveLoop(output_buffer, FALSE, InspectExit(insp), chan)
       ELSE Continue(chan, now, in_command_execution, command_start_time, oldest_start,
                     silentPolls)
    /\ UNCHANGED <<status, provisioned, container, reused, destroyed, issued, firstFailure,
                   command_timeout, output_buffer>>

\* select times out after one poll interval with nothing to read
poll_timeout(insp) ==
    /\ pc = "loop"
    /\ chan = <<>>
    /\ procRunning
    /\ LET t == Advance(now, 1, in_command_execution)
           silent == IF silentPolls <= MaxTimeout THEN silentPolls + 1 ELSE silentPolls
       IN
       IF TimedOut(in_command_execution, command_start_time, t, command_timeout)
       THEN LeaveLoop(output_buffer, TRUE, "timeout", chan)
       ELSE IF LoopEndsAtInspect(insp, procRunning)
       THEN LeaveLoop(output_buffer, FALSE, InspectExit(insp), chan)
       ELSE Continue(chan, t, in_command_execution, command_start_time, oldest_start,
                     silent)
    /\ UNCHANGED <<status, provisioned, container, reused, destroyed, issued, firstFailure,
                   command_timeout, output_buffer>>

\* one command of _kill_stuck_processes, its result discarded; after the last,
\* codex_exec returns
kill_step(out) ==
    /\ pc = "kill"
    /\ LET c == kill_commands[step]
           r == execute(container, status, c, out)
       IN  /\ issued' = IssuedAfter(issued, container, status, c)
           /\ IF r.raised
              THEN /\ op' = Ended(op, "raised", r.err)
                   /\ pc' = "idle"
                   /\ step' = 0
                   /\ UNCHANGED result
              ELSE IF step = Len(kill_commands)
              THEN /\ op' = Ended(op, "ok", "")
                   /\ pc' = "idle"
                   /\ result' = CommandResult(1, Join(output_buffer), <<"Codex agent stuck.">>)
                   /\ step' = 0
              ELSE /\ step' = step + 1
                   /\ UNCHANGED <<op, pc, result>>
    /\ UNCHANGED <<status, provisioned, container, reused, destroyed, firstFailure,
                   streamVars>>

(***************************************************************************)
(* The wrapped process: it writes while it runs in a running instance, and *)
(* it may exit. What it has written and the loop has not read waits in the *)
(* channel; a recv(4096) returns the first chunk of it.                    *)
(***************************************************************************)
ProcEmit(chunk) ==
    /\ pc = "loop"
    /\ procRunning
    /\ status = "running"
    /\ Len(chan) + Len(output_buffer) < MaxEmit
    /\ chan' = Append(chan, chunk)
    /\ UNCHANGED <<lifeVars, procRunning, now, command_timeout, output_buffer, was_stuck,
                   in_command_execution, command_start_time, sockClosed, silentPolls,
                   loop_exit, oldest_start>>

ProcExit ==
    /\ pc = "loop"
    /\ procRunning
    /\ status = "running"
    /\ procRunning' = FALSE
    /\ UNCHANGED <<lifeVars, chan, now, command_timeout, output_buffer, was_stuck,
                   in_command_execution, command_start_time, sockClosed, silentPolls,
                   loop_exit, oldest_start>>

(***************************************************************************)
(* The streaming specification: a session with or without a handle, the    *)
(* instance in any status.                                                 *)
(***************************************************************************)
InitStream ==
    /\ status \in Statuses
    /\ provisioned = (status # "absent")
    /\ container \in {None, Attached}
    /\ reused = FALSE
    /\ pc = "idle"
    /\ step = 0
    /\ op = NoOp
    /\ destroyed = "no"
    /\ issued = <<>>
    /\ firstFailure = NoCmd
    /\ result = NoResult
    /\ StreamIdle

NextStream ==
    \/ \E t \in Timeouts, api \in {"ok", "error"} : codex_exec(main_prompt, t, api)
    \/ \E dt \in {0, 1}, insp \in InspectOutcomes : poll_recv(dt, insp)
    \/ poll_eof
    \/ poll_recv_error
    \/ poll_select_error
    \/ \E insp \in InspectOutcomes : poll_blocking(insp)
    \/ \E insp \in InspectOutcomes : poll_timeout(insp)
    \/ \E out \in ExecRunOutcomes : kill_step(out)
    \/ \E chunk \in Chunks : ProcEmit(chunk)
    \/ ProcExit
    \/ \E s \in Statuses : EnvChange(s)

SpecStream == InitStream /\ [][NextStream]_vars

(***************************************************************************)
(* The specification of the prompts: codex_exec called with any prompt,    *)
(* the loop ended at once.                                                 *)
(***************************************************************************)
NextPrompt ==
    \/ \E prompt \in Prompts, t \in Timeouts, api \in {"ok", "error"} :
           codex_exec(prompt, t, api)
    \/ poll_recv_error

SpecPrompt == InitStream /\ [][NextPrompt]_vars

(***************************************************************************)
(* The streaming specification with a fair polling loop: an iteration of   *)
(* the loop that is possible without an error of the transport or of the   *)
(* API eventually happens, and so does the next recovery command. Nothing  *)
(* is assumed of the wrapped process.                                      *)
(***************************************************************************)
Iteration ==
    \/ \E dt \in {0, 1} : poll_recv(dt, "ok")
    \/ poll_eof
    \/ poll_blocking("ok")
    \/ poll_timeout("ok")

Recovery == \E out \in ExecRunOutcomes : kill_step(out)

SpecStreamFair == SpecStream /\ WF_vars(Iteration) /\ WF_vars(Recovery)

(***************************************************************************)
(* The claims.                                                             *)
(***************************************************************************)
IsPrefix(a, b) == Len(a) <= Len(b) /\ a = SubSeq(b, 1, Len(a))

\* the streaming executor of the current codex_exec has returned (output, stuck)
ExecutorReturned ==
    /\ op.name = "codex_exec"
    /\ pc \in {"kill", "idle"}
    /\ op.err \notin {"NotStarted", "APIError(exec_create)"}

\* codex_exec has ended, by a return or by an exception
CodexEnded == ExecutorReturned /\ pc = "idle"

\* C1: when the last marker received is a phase-start marker and more than
\* command_timeout poll intervals of silence have followed the chunk it came
\* in, the loop has ended with was_stuck; and the loop does not end with
\* was_stuck when the last marker received is a phase-complete marker.
C1_StuckAfterSilentGap ==
    op.name = "codex_exec" =>
        /\ (LastMarkerOf(Join(output_buffer)) = "exec_start" /\ silentPolls > command_timeout)
               => (pc # "loop" /\ was_stuck)
        /\ was_stuck => LastMarkerOf(Join(output_buffer)) # "exec_complete"

\* C2: once the streaming executor has returned, codex_exec returns, and what
\* it returns is decided by was_stuck alone: exit code 1, the output and
\* "Codex agent stuck." if stuck, exit code 0, the output and an empty stderr
\* if not.
C2_ResultDecidedByStuck ==
    CodexEnded =>
        /\ op.outcome = "ok"
        /\ result = IF was_stuck
                    THEN CommandResult(1, Join(output_buffer), <<"Codex agent stuck.">>)
                    ELSE CommandResult(0, Join(output_buffer), <<>>)

\* C3: the recovery commands are issued in the order of kill_commands, none
\* before the loop has ended and none in a run that is not stuck; a stuck run
\* has issued all of them, each once, when codex_exec ends.
C3_RecoveryIssuesWholeList ==
    op.name = "codex_exec" =>
        /\ IsPrefix(issued, kill_commands)
        /\ (pc = "loop" \/ ~was_stuck) => issued = <<>>
        /\ (CodexEnded /\ was_stuck) => issued = kill_commands

\* C4: a start() that observes the instance running ends normally with the
\* handle attached and reused = TRUE, and hands no command to the instance.
C4_AcquireIdempotent ==
    (op.name = "start" /\ op.observed = "running") =>
        /\ pc = "idle"
        /\ op.outcome = "ok"
        /\ container = Attached
        /\ reused
        /\ issued = <<>>

\* the second of two start() calls: the instance it finds running was created
\* and provisioned by an earlier start()
C4_Witness ==
    /\ op.name = "start"
    /\ op.observed = "running"
    /\ op.outcome = "ok"
    /\ reused
    /\ provisioned

\* C5: a start() that finds no instance and creates one has reused = FALSE
\* and runs the commands of the provisioning sequence in order, all of them
\* when it ends normally; a command that exits non-zero is the last one it
\* runs and makes it raise.
C5_ProvisioningAbortsOnFailure ==
    (op.name = "start" /\ op.observed = "absent" /\ container = Attached) =>
        /\ ~reused
        /\ IsPrefix(issued, Names(initialize_container))
        /\ op.outcome = "ok" => issued = Names(initialize_container)
        /\ firstFailure # NoCmd =>
               (op.outcome = "raised" /\ issued[Len(issued)] = firstFailure)

\* C6: after remove() has returned there is no instance and no handle until a
\* start() creates one; a start() that finds no instance attaches a new one
\* with reused = FALSE and runs the provisioning sequence from its first
\* command, the whole of it when it ends normally.
C6_AcquireAfterDestroy ==
    /\ destroyed = "yes" => (status = "absent" /\ container = None)
    /\ (op.name = "start" /\ op.observed = "absent" /\ op.outcome # "raised") =>
           /\ container = Attached
           /\ ~reused
           /\ IsPrefix(issued, Names(initialize_container))
           /\ op.outcome = "running" => (pc = "prov" /\ Len(issued) = step - 1)
           /\ op.outcome = "ok" => issued = Names(initialize_container)

\* a start() after a remove() has created and provisioned a new instance
C6_Witness ==
    /\ destroyed = "recreated"
    /\ op.name = "start"
    /\ op.observed = "absent"
    /\ op.outcome = "ok"
    /\ ~reused
    /\ issued = Names(initialize_container)

\* C7: an execute() on an attached handle that observes the instance running
\* ends by returning a CommandResult, never by an exception, and a failure of
\* exec_run comes back as a non-zero exit code with the error in stderr.
C7_ExecuteNeverRaises ==
    (op.name = "execute" /\ op.observed = "running") =>
        /\ op.outcome = "ok"
        /\ success(result) <=> result.exit_code = 0
        /\ ~success(result) => result.stderr # <<>>

\* C8: an execute_script() that has handed its file-creating command to the
\* instance and has returned has handed "rm" to it last.
C8_ScriptAlwaysDeletes ==
    (op.name = "execute_script" /\ op.outcome = "ok" /\ issued # <<>>) =>
        /\ issued[Len(issued)] = "rm"
        /\ result.stdout # <<"rm">>

\* C9: after stop() or remove(), however it ended, the handle is None; with
\* no handle, or with the instance absent, the call ends with a warning, not
\* an error, and the instance is still absent.
C9_TeardownClearsHandle ==
    op.name \in {"stop", "remove"} =>
        /\ pc = "idle"
        /\ container = None
        /\ op.observed \in {"n/a", "absent"} => op.outcome = "warned"
        /\ op.observed = "absent" => status = "absent"

\* a stop() or remove() whose remote call raised has cleared the handle
C9_Witness ==
    /\ op.name \in {"stop", "remove"}
    /\ op.outcome = "raised"
    /\ container = None

\* C10: a stuck codex_exec does not end by an exception of its recovery
\* commands.
C10_KillNeverFailsCaller ==
    (ExecutorReturned /\ was_stuck) => op.outcome # "raised"

\* C11: while the loop runs the socket is open; once the loop has ended, in
\* whichever way, the socket is closed and the executor has returned: was_stuck
\* is TRUE exactly when the loop ended by the timeout, codex_exec goes on to
\* its recovery commands then, and has returned the output otherwise.
C11_LoopExitClosesAndReturns ==
    op.name = "codex_exec" =>
        /\ pc = "loop" => (loop_exit = "none" /\ ~sockClosed)
        /\ loop_exit # "none" =>
               /\ pc \in {"kill", "idle"}
               /\ sockClosed
               /\ was_stuck <=> loop_exit = "timeout"
               /\ (was_stuck /\ pc = "kill") => op.outcome = "running"
               /\ ~was_stuck =>
                      /\ op.outcome = "ok"
                      /\ result = CommandResult(0, Join(output_buffer), <<>>)

\* the loop ended by an error of exec_inspect after output had been captured
C11_Witness ==
    /\ op.name = "codex_exec"
    /\ loop_exit = "inspect_error"
    /\ sockClosed
    /\ output_buffer # <<>>
    /\ result.stdout = Join(output_buffer)

\* the marker tokens of a text, in order
MarkersOf(text) == SelectSeq(text, LAMBDA x : x # "text")

\* C12: in a run of the loop that has read one start marker and no other
\* marker, with the wrapped process still running, the loop does not go on
\* to another iteration once more than command_timeout + 1 poll intervals
\* have passed since the start time.
C12_StuckWithinOnePoll ==
    (/\ pc = "loop"
     /\ procRunning
     /\ in_command_execution
     /\ MarkersOf(Join(output_buffer)) = <<"exec_start">>)
        => now - command_start_time <= command_timeout + 1

\* C13: while start markers only have been read, the recorded start time is
\* the time the first of them was read.
C13_RepeatedStartKeepsFirst ==
    (/\ pc = "loop"
     /\ in_command_execution
     /\ ~exec_complete_pattern(Join(output_buffer)))
        => command_start_time = oldest_start

\* C14: an execute() or a reinitialize() called with no handle, or observing
\* the instance in a status other than running, has raised and has handed no
\* command to the instance.
C14_PreconditionBeforeCommands ==
    (op.name \in {"execute", "reinitialize"} /\ op.observed # "running") =>
        /\ pc = "idle"
        /\ op.outcome = "raised"
        /\ op.err \in {"NotStarted", "NotRunning", "NotFound"}
        /\ issued = <<>>
        /\ result = NoResult

\* an execute() on an attached handle has found the instance paused
C14_Witness ==
    /\ op.name = "execute"
    /\ op.observed = "paused"
    /\ container = Attached
    /\ op.err = "NotRunning"

\* s comes before t in the sequence of calls
Precedes(calls, s, t) ==
    \E i, j \in 1..Len(calls) : i < j /\ calls[i] = s /\ calls[j] = t

\* C16: a start() that observes the instance running attaches with reused =
\* TRUE, makes no start call and runs no command; one that observes it exited
\* makes one start call, attaches with reused = TRUE and runs no command; one
\* that observes another status removes the instance before it creates, and
\* once it has created has reused = FALSE and runs the provisioning sequence,
\* the whole of it when it ends normally. No start() creates without having
\* found no instance or having removed the one it found.
C16_AcquireDecidesByStatus ==
    op.name = "start" =>
        /\ op.observed = "running" =>
               /\ op.calls = <<"get", "reload">>
               /\ op.outcome = "ok" /\ container = Attached /\ reused /\ issued = <<>>
        /\ op.observed = "exited" =>
               /\ op.calls = <<"get", "reload", "start">>
               /\ issued = <<>>
               /\ op.outcome # "raised" => (op.outcome = "ok" /\ container = Attached /\ reused)
        /\ (op.observed \in Statuses \ {"absent", "running", "exited"}) =>
               /\ IsPrefix(<<"get", "reload", "remove">>, op.calls)
               /\ container = Attached =>
                      /\ op.calls = <<"get", "reload", "remove", "ensure_image", "run">>
                      /\ ~reused
                      /\ IsPrefix(issued, Names(initialize_container))
                      /\ op.outcome = "running" => (pc = "prov" /\ Len(issued) = step - 1)
                      /\ op.outcome = "ok" => issued = Names(initialize_container)
        /\ (\E i \in 1..Len(op.calls) : op.calls[i] = "run") =>
               (op.observed = "absent" \/ Precedes(op.calls, "remove", "run"))

\* a start() that found the instance paused has replaced and provisioned it
C16_Witness ==
    /\ op.name = "start"
    /\ op.observed = "paused"
    /\ op.outcome = "ok"
    /\ ~reused
    /\ issued = Names(initialize_container)

\* C18: the instance a start() has returned normally, if it still exists, is
\* one in which every command of the provisioning sequence has succeeded.
C18_ReturnedInstanceProvisioned ==
    (op.name = "start" /\ op.outcome = "ok" /\ status # "absent") => provisioned

\* the characters of a text that are one of the given ones
Count(text, chars) == Len(SelectSeq(text, LAMBDA x : x \in chars))

\* C15: the escaped prompt, read by the shell between double quotes, is the
\* prompt; and the escaping has put one backslash before each double quote,
\* dollar sign and backtick of the prompt and no other character.
C15_PromptRoundTrips ==
    (op.name = "codex_exec" /\ op.err # "NotStarted") =>
        /\ ShellDoubleQuoted(op.escaped) = op.prompt
        /\ Len(op.escaped) = Len(op.prompt) + Count(op.prompt, {"dq", "dollar", "backtick"})

\* C17: a polling loop that has begun ends, and codex_exec with it.
C17_SessionCompletes == (pc = "loop") ~> (pc = "idle")

\* the markers of a chunk sequence say a start marker is unresolved: a chunk
\* holds a start marker and no later chunk holds a marker
StartUnresolved(buffer) ==
    \E i \in 1..Len(buffer) :
        /\ exec_start_pattern(buffer[i])
        /\ \A j \in (i + 1)..Len(buffer) :
               ~exec_start_pattern(buffer[j]) /\ ~exec_complete_pattern(buffer[j])

\* C19: in_command_execution holds exactly when a start time is recorded, it
\* does not hold before the first chunk is read, and was_stuck is set only
\* by a step of the loop taken while in_command_execution holds, after a
\* start marker has been read and no complete marker in a later chunk.
C19_PhaseInvariant ==
    /\ [](in_command_execution <=> command_start_time # NoTime)
    /\ []((pc = "loop" /\ output_buffer = <<>>) => ~in_command_execution)
    /\ [](was_stuck => StartUnresolved(output_buffer))
    /\ [][(was_stuck' /\ ~was_stuck) => (pc = "loop" /\ in_command_execution)]_vars

\* a stuck verdict in a run in which an earlier command had completed
C19_Witness ==
    /\ op.name = "codex_exec"
    /\ was_stuck
    /\ exec_complete_pattern(Join(output_buffer))

\* C20: while the loop runs, in_command_execution holds exactly when the last
\* marker of the text read so far is a start marker.
C20_PhaseFollowsTextOrder ==
    pc = "loop" =>
        (in_command_execution <=> LastMarkerOf(Join(output_buffer)) = "exec_start")

\* C21: when the loop has ended because exec_inspect reported the wrapped
\* process no longer running, the output codex_exec returns is all the
\* process wrote: nothing was left unread in the channel.
C21_ExitReturnsAllOutput ==
    (op.name = "codex_exec" /\ loop_exit = "exited") =>
        result.stdout = Join(output_buffer \o chan)

====
